---- MODULE Spec2Model ----
(***************************************************************************)
(* Model of skorch/probabilistic.py: the Gaussian Process estimators       *)
(* GPBase, ExactGPRegressor, GPRegressor and GPBinaryClassifier.           *)
(*                                                                         *)
(* An estimator is a record `self` holding its public parameters (module,  *)
(* likelihood, criterion, batch_size, the prefixed likelihood__/module__/  *)
(* criterion__ parameters) and the attributes the initialize_* methods     *)
(* create (likelihood_, module_, criterion_).  Python objects are records  *)
(* with a kind ("class", "instance", "distribution", "unset") and, for     *)
(* instances, an identity `id` taken from the counter nextId.              *)
(***************************************************************************)
EXTENDS Integers, Sequences, FiniteSets, TLC

VARIABLES self, init_args, ret, nextId

vars == <<self, init_args, ret, nextId>>

(***************************************************************************)
(* Bounds of the model.                                                    *)
(***************************************************************************)
MaxObjects == 5
MaxSamples == 4
MaxBatchSize == 2
MaxLen == 2

(***************************************************************************)
(* Python values.                                                          *)
(***************************************************************************)
NoKwargs == [k \in {} |-> 0]

NoAttr == [kind |-> "unset"]

Class(name) == [kind |-> "class", name |-> name]

Instance(name, id, args) ==
    [kind |-> "instance", cls |-> name, id |-> id, args |-> args]

Value(v) == [kind |-> "value", v |-> v]

Distribution == [kind |-> "distribution"]

hasattr(x) == x.kind # "unset"

isinstance_Module(x) == x.kind = "instance"

type(x) == Class(x.cls)

ExactGPClasses == {"RbfExactGP"}

ModuleClasses == {"RbfExactGP", "VariationalGP"}

isinstance_ExactGP(x) == x.kind = "instance" /\ x.cls \in ExactGPClasses

Estimators == {"GPBase", "ExactGPRegressor", "GPRegressor", "GPBinaryClassifier"}

\* Calling a class constructs an instance with a fresh identity.  Calling an
\* instance runs its forward with the keyword arguments, which either raises
\* or returns whatever forward returns (a distribution, not a module).
call(f, kwargs, id, outcome) ==
    IF f.kind = "class"
    THEN [exc |-> "none", value |-> Instance(f.name, id, kwargs)]
    ELSE IF outcome = "raise"
         THEN [exc |-> "TypeError", value |-> NoAttr]
         ELSE [exc |-> "none", value |-> Distribution]

get_params_for(net, prefix) ==
    CASE prefix = "likelihood" -> net.likelihood_kwargs
      [] prefix = "module" -> net.module_kwargs
      [] prefix = "criterion" -> net.criterion_kwargs

(***************************************************************************)
(* Construction.                                                           *)
(***************************************************************************)
NeuralNet_batch_size == 128

NeuralNet__init__(cls, a) ==
    [cls |-> cls,
     module |-> a.module,
     criterion |-> a.criterion,
     batch_size |-> IF a.has_batch_size THEN a.batch_size ELSE NeuralNet_batch_size,
     likelihood_kwargs |-> a.likelihood_kwargs,
     module_kwargs |-> a.module_kwargs,
     criterion_kwargs |-> a.criterion_kwargs,
     likelihood_ |-> NoAttr,
     module_ |-> NoAttr,
     criterion_ |-> NoAttr]

GPBase__init__(cls, a) ==
    [k \in DOMAIN NeuralNet__init__(cls, a) \cup {"likelihood"} |->
        IF k = "likelihood" THEN a.likelihood ELSE NeuralNet__init__(cls, a)[k]]

ExactGPRegressor_batch_size == -1

ExactGPRegressor__init__NoDefault(a) ==
    GPBase__init__("ExactGPRegressor",
        [a EXCEPT !.likelihood = IF a.has_likelihood THEN a.likelihood
                                 ELSE Class("GaussianLikelihood"),
                  !.criterion = Class("ExactMarginalLogLikelihood")])

ExactGPRegressor__init__(a) ==
    GPBase__init__("ExactGPRegressor",
        [a EXCEPT !.likelihood = IF a.has_likelihood THEN a.likelihood
                                 ELSE Class("GaussianLikelihood"),
                  !.criterion = Class("ExactMarginalLogLikelihood"),
                  !.batch_size = IF a.has_batch_size THEN a.batch_size
                                 ELSE ExactGPRegressor_batch_size,
                  !.has_batch_size = TRUE])

GPRegressor__init__(a) ==
    GPBase__init__("GPRegressor",
        [a EXCEPT !.likelihood = IF a.has_likelihood THEN a.likelihood
                                 ELSE Class("GaussianLikelihood"),
                  !.criterion = Class("VariationalELBO")])

GPBinaryClassifier__init__(a) ==
    GPBase__init__("GPBinaryClassifier",
        [a EXCEPT !.likelihood = IF a.has_likelihood THEN a.likelihood
                                 ELSE Class("BernoulliLikelihood"),
                  !.criterion = Class("VariationalELBO")])

construct(cls, a) ==
    CASE cls = "GPBase" -> GPBase__init__("GPBase", a)
      [] cls = "ExactGPRegressor" -> ExactGPRegressor__init__(a)
      [] cls = "GPRegressor" -> GPRegressor__init__(a)
      [] cls = "GPBinaryClassifier" -> GPBinaryClassifier__init__(a)

(***************************************************************************)
(* initialize_module.  Each operator returns the estimator as the call     *)
(* leaves it (attributes assigned before an exception stay assigned), the  *)
(* exception raised ("none" on a normal return) and the next free identity.*)
(***************************************************************************)
NeuralNet_initialize_module(net, id, outcome) ==
    LET kwargs == get_params_for(net, "module")
        module == net.module
        is_initialized == isinstance_Module(module)
    IN  IF DOMAIN kwargs # {} \/ ~is_initialized
        THEN LET r == call(IF is_initialized THEN type(module) ELSE module,
                           kwargs, id, outcome)
             IN  [self |-> [net EXCEPT !.module_ = r.value],
                  exc |-> "none", next |-> id + 1]
        ELSE [self |-> [net EXCEPT !.module_ = module],
              exc |-> "none", next |-> id]

\* lines 68-77 and 491-505: the likelihood is instantiated only when it was
\* given as a class or when likelihood__ parameters are present.
init_likelihood(net, id, outcome) ==
    LET ll_kwargs == get_params_for(net, "likelihood")
        likelihood == net.likelihood
        is_initialized == isinstance_Module(likelihood)
    IN  IF ~is_initialized \/ DOMAIN ll_kwargs # {}
        THEN LET r == call(IF is_initialized THEN type(likelihood) ELSE likelihood,
                           ll_kwargs, id, outcome)
             IN  [self |-> [net EXCEPT !.likelihood_ = r.value], next |-> id + 1]
        ELSE [self |-> net, next |-> id]

GPBase_initialize_module(net, id, outcome) ==
    LET s == init_likelihood(net, id, outcome)
    IN  NeuralNet_initialize_module(s.self, s.next, outcome)

ExactGPRegressor_initialize_module_body(net, id, outcome) ==
    LET likelihood == net.likelihood
        module == net.module
        module_kwargs == get_params_for(net, "module")
        initialized_ll == isinstance_Module(likelihood)
        initialized_both == initialized_ll /\ isinstance_Module(module)
        s == init_likelihood(net, id, outcome)
        net1 == s.self
    IN  IF "likelihood" \notin DOMAIN module_kwargs /\ ~hasattr(net1.likelihood_)
        THEN [self |-> net1, exc |-> "AttributeError", next |-> s.next]
        ELSE
        LET kw == IF "likelihood" \notin DOMAIN module_kwargs
                  THEN module_kwargs @@ ("likelihood" :> net1.likelihood_)
                  ELSE module_kwargs
            r == call(IF initialized_both THEN type(module) ELSE module,
                      kw, s.next, outcome)
        IN  IF ~initialized_both \/ DOMAIN kw # {}
            THEN IF r.exc # "none"
                 THEN [self |-> net1, exc |-> r.exc, next |-> s.next]
                 ELSE [self |-> [net1 EXCEPT !.module_ = r.value],
                       exc |-> "none", next |-> s.next + 1]
            ELSE [self |-> net1,
                  exc |-> IF hasattr(net1.module_) THEN "none" ELSE "AttributeError",
                  next |-> s.next]

ExactGPRegressor_initialize_module_Unchecked(net, id, outcome) ==
    ExactGPRegressor_initialize_module_body(net, id, outcome)

ExactGPRegressor_initialize_module(net, id, outcome) ==
    LET s == ExactGPRegressor_initialize_module_body(net, id, outcome)
    IN  IF s.exc = "none" /\ ~isinstance_ExactGP(s.self.module_)
        THEN [s EXCEPT !.exc = "TypeError"]
        ELSE s

initialize_module_of(net, id, outcome) ==
    IF net.cls = "ExactGPRegressor"
    THEN ExactGPRegressor_initialize_module(net, id, outcome)
    ELSE GPBase_initialize_module(net, id, outcome)

(***************************************************************************)
(* initialize_criterion (lines 82-93).                                     *)
(***************************************************************************)
GPBase_initialize_criterion_FromParam(net, id) ==
    [self |-> [net EXCEPT !.criterion_ =
                  Instance(net.criterion.name, id,
                           [likelihood |-> net.likelihood, model |-> net.module,
                            params |-> get_params_for(net, "criterion")])],
     exc |-> "none", next |-> id + 1]

GPBase_initialize_criterion(net, id) ==
    LET criterion_params == get_params_for(net, "criterion")
    IN  IF ~hasattr(net.likelihood_) \/ ~hasattr(net.module_)
        THEN [self |-> net, exc |-> "AttributeError", next |-> id]
        ELSE IF DOMAIN criterion_params \cap {"likelihood", "model"} # {}
        THEN [self |-> net, exc |-> "TypeError", next |-> id]
        ELSE [self |-> [net EXCEPT !.criterion_ =
                           Instance(net.criterion.name, id,
                                    [likelihood |-> net.likelihood_,
                                     model |-> net.module_,
                                     params |-> criterion_params])],
              exc |-> "none", next |-> id + 1]

(***************************************************************************)
(* get_loss (lines 127-164).  A tensor is [dim, den, vals]: its elements   *)
(* are the exact rationals vals[i] / den; dim = 0 is a scalar.             *)
(***************************************************************************)
RECURSIVE sum(_)
sum(vals) == IF vals = <<>> THEN 0 ELSE Head(vals) + sum(Tail(vals))

dim(t) == t.dim

mean(t) == [dim |-> 0, den |-> t.den * Len(t.vals), vals |-> <<sum(t.vals)>>]

neg(t) == [t EXCEPT !.vals = [i \in DOMAIN t.vals |-> 0 - t.vals[i]]]

\* The base class returns what criterion_(y_pred, y_true) returns: `out`.
NeuralNet_get_loss(net, out, training) ==
    IF ~hasattr(net.criterion_)
    THEN [exc |-> "AttributeError", value |-> NoAttr]
    ELSE [exc |-> "none", value |-> out]

GPBase_get_loss_NoMean(net, out, training) ==
    LET loss == NeuralNet_get_loss(net, out, training)
    IN  IF loss.exc # "none" THEN loss
        ELSE [exc |-> "none",
              value |-> neg([dim |-> 0, den |-> loss.value.den,
                             vals |-> <<sum(loss.value.vals)>>])]

GPBase_get_loss(net, out, training) ==
    LET loss == NeuralNet_get_loss(net, out, training)
    IN  IF loss.exc # "none" THEN loss
        ELSE [exc |-> "none",
              value |-> neg(IF dim(loss.value) # 0 THEN mean(loss.value)
                            ELSE loss.value)]

(***************************************************************************)
(* evaluation_step (lines 166-195) and forward (lines 197-250).  X is the  *)
(* sample indices 1..n; a batch is a sequence of sample indices.           *)
(***************************************************************************)
evaluation_step(net, batch, training, multi) ==
    IF ~hasattr(net.module_)
    THEN [exc |-> "NotInitializedError", value |-> NoAttr]
    ELSE IF ~isinstance_Module(net.module_) \/ ~hasattr(net.likelihood_)
    THEN [exc |-> "AttributeError", value |-> NoAttr]
    ELSE LET posterior == [kind |-> "posterior", X |-> batch,
                           model |-> net.module_.id,
                           likelihood |-> net.likelihood_.id]
         IN  [exc |-> "none",
              value |-> [tuple |-> multi, first |-> posterior]]

\* get_iterator: batch_size -1 means the whole dataset in one batch.
iterator_batch_size(net, n) == IF net.batch_size = -1 THEN n ELSE net.batch_size

num_batches(net, n) ==
    (n + iterator_batch_size(net, n) - 1) \div iterator_batch_size(net, n)

batch_at(net, n, k) ==
    LET bs == iterator_batch_size(net, n)
        lo == (k - 1) * bs + 1
        hi == IF k * bs < n THEN k * bs ELSE n
    IN  [i \in 1..(hi - lo + 1) |-> lo + i - 1]

forward_iter(net, n, training, multi) ==
    [k \in 1..num_batches(net, n) |->
        evaluation_step(net, batch_at(net, n, k), training, multi)]

GPBase_forward_Concat(net, n, training, multi) ==
    LET steps == forward_iter(net, n, training, multi)
    IN  IF \E k \in DOMAIN steps : steps[k].exc # "none"
        THEN [exc |-> steps[1].exc, value |-> <<>>]
        ELSE [exc |-> "none",
              value |-> <<[steps[1].value EXCEPT
                             !.first.X = [i \in 1..n |-> i]]>>]

GPBase_forward(net, n, training, multi) ==
    LET steps == forward_iter(net, n, training, multi)
    IN  IF \E k \in DOMAIN steps : steps[k].exc # "none"
        THEN [exc |-> steps[1].exc, value |-> <<>>]
        ELSE [exc |-> "none",
              value |-> [k \in DOMAIN steps |-> steps[k].value]]

(***************************************************************************)
(* The state machine: an estimator is constructed, then its methods are    *)
(* called in any order.                                                    *)
(***************************************************************************)
LikelihoodKwargs == {NoKwargs, [noise |-> Value(1)]}

ModuleKwargs ==
    {NoKwargs, [num_inducing |-> Value(2)],
     [likelihood |-> Instance("FixedNoiseGaussianLikelihood", 0, NoKwargs)]}

CriterionKwargs == {NoKwargs, [num_data |-> Value(3)]}

ModuleArgs ==
    {Class(c) : c \in ModuleClasses}
        \cup {Instance(c, 0, NoKwargs) : c \in ModuleClasses}

LikelihoodArgs ==
    {Class("GaussianLikelihood"), Instance("GaussianLikelihood", 0, NoKwargs)}

BatchSizes == {-1} \cup 1..MaxBatchSize

InitArgs ==
    [module : ModuleArgs,
     has_likelihood : BOOLEAN,
     likelihood : LikelihoodArgs,
     criterion : {Class("VariationalELBO")},
     has_batch_size : BOOLEAN,
     batch_size : BatchSizes,
     likelihood_kwargs : LikelihoodKwargs,
     module_kwargs : ModuleKwargs,
     criterion_kwargs : CriterionKwargs]

\* GPBase has no default likelihood; an omitted argument carries a fixed
\* placeholder so that it is not enumerated more than once.  The criterion
\* argument is read by GPBase only: the subclasses are constructed with their
\* default criterion.
WellFormedArgs(cls, a) ==
    /\ cls = "GPBase" => a.has_likelihood
    /\ ~a.has_likelihood => a.likelihood = Class("GaussianLikelihood")
    /\ ~a.has_batch_size => a.batch_size = -1

\* What the criterion can return: a scalar, or a vector of 1..MaxLen elements.
Elements == {-1, 0, 2}

Tensors ==
    [dim : {0}, den : {1}, vals : [1..1 -> Elements]]
        \cup UNION {[dim : {1}, den : {1}, vals : [1..l -> Elements]]
                        : l \in 1..MaxLen}

InitFrom(classes, args) ==
    \E cls \in classes, a \in args :
        /\ WellFormedArgs(cls, a)
        /\ self = construct(cls, a)
        /\ init_args = a
        /\ ret = [op |-> "__init__", exc |-> "none", arg |-> NoAttr, value |-> NoAttr]
        /\ nextId = 1

Init == InitFrom(Estimators, InitArgs)

initialize_module ==
    /\ nextId + 2 <= MaxObjects + 1
    /\ \E outcome \in {"raise", "value"} :
         LET r == initialize_module_of(self, nextId, outcome)
         IN  /\ self' = r.self
             /\ nextId' = r.next
             /\ ret' = [op |-> "initialize_module", exc |-> r.exc,
                        arg |-> NoAttr, value |-> NoAttr]
    /\ UNCHANGED init_args

initialize_criterion ==
    /\ nextId + 1 <= MaxObjects + 1
    /\ LET r == GPBase_initialize_criterion(self, nextId)
       IN  /\ self' = r.self
           /\ nextId' = r.next
           /\ ret' = [op |-> "initialize_criterion", exc |-> r.exc,
                      arg |-> NoAttr, value |-> NoAttr]
    /\ UNCHANGED init_args

get_loss ==
    /\ \E out \in Tensors, training \in BOOLEAN :
         LET r == GPBase_get_loss(self, out, training)
         IN  ret' = [op |-> "get_loss", exc |-> r.exc,
                     arg |-> [out |-> out, training |-> training],
                     value |-> r.value]
    /\ UNCHANGED <<self, init_args, nextId>>

forward ==
    /\ \E n \in 1..MaxSamples, training \in BOOLEAN, multi \in BOOLEAN :
         LET r == GPBase_forward(self, n, training, multi)
         IN  ret' = [op |-> "forward", exc |-> r.exc,
                     arg |-> [n |-> n, training |-> training],
                     value |-> r.value]
    /\ UNCHANGED <<self, init_args, nextId>>

\* Construction and initialization of every estimator, with every combination
\* of class/instance arguments and prefixed parameters.
Next == initialize_module \/ initialize_criterion

Spec == Init /\ [][Next]_vars

\* Prediction: estimators without prefixed parameters, every batch size.
ForwardArgs ==
    {a \in InitArgs : /\ a.likelihood_kwargs = NoKwargs
                      /\ a.module_kwargs = NoKwargs
                      /\ a.criterion_kwargs = NoKwargs}

InitForward == InitFrom(Estimators, ForwardArgs)

NextForward == initialize_module \/ forward

SpecForward == InitForward /\ [][NextForward]_vars

\* Loss computation: estimators given classes, default batch size.
LossArgs ==
    {a \in InitArgs : /\ a.likelihood_kwargs = NoKwargs
                      /\ a.module_kwargs = NoKwargs
                      /\ a.module.kind = "class"
                      /\ ~a.has_batch_size}

InitLoss == InitFrom(Estimators, LossArgs)

NextLoss == initialize_module \/ initialize_criterion \/ get_loss

SpecLoss == InitLoss /\ [][NextLoss]_vars

(***************************************************************************)
(* Properties.                                                             *)
(***************************************************************************)

\* C1: whenever get_loss returns, its result is a scalar equal to minus the
\* criterion's output when that output is a scalar, and to minus the mean of
\* its elements otherwise, whatever the value of `training`.
C1_GetLossNegatesObjective ==
    (ret.op = "get_loss" /\ ret.exc = "none") =>
        LET out == ret.arg.out
            r == ret.value
        IN  /\ r.dim = 0
            /\ Len(r.vals) = 1
            /\ out.dim = 0 => r.vals[1] * out.den = (0 - out.vals[1]) * r.den
            /\ out.dim # 0 =>
                 r.vals[1] * out.den * Len(out.vals) = (0 - sum(out.vals)) * r.den

C1_Witness ==
    /\ ret.op = "get_loss"
    /\ ret.exc = "none"
    /\ ret.arg.training
    /\ ret.arg.out.dim = 1
    /\ ret.arg.out.vals = <<-1, 2>>

\* C2: after initialize_module returns, likelihood_ is set and holds an
\* instantiated likelihood, however the likelihood was given.
C2_LikelihoodInstantiated ==
    (ret.op = "initialize_module" /\ ret.exc = "none") =>
        isinstance_Module(self.likelihood_)

IsExactGPArg(m) ==
    \/ m.kind = "class" /\ m.name \in ExactGPClasses
    \/ m.kind = "instance" /\ m.cls \in ExactGPClasses

\* C3: given an ExactGP class or instance as module, ExactGPRegressor's
\* initialize_module returns with module_ an ExactGP instance constructed with
\* likelihood = likelihood_, or with the module__likelihood parameter if given.
\* Stated for the calls that have a likelihood_ to pass on.
C3_ExactModuleGetsLikelihood ==
    (/\ self.cls = "ExactGPRegressor"
     /\ ret.op = "initialize_module"
     /\ hasattr(self.likelihood_)
     /\ IsExactGPArg(self.module)) =>
        /\ ret.exc = "none"
        /\ isinstance_ExactGP(self.module_)
        /\ "likelihood" \in DOMAIN self.module_.args
        /\ IF "likelihood" \in DOMAIN self.module_kwargs
           THEN self.module_.args.likelihood = self.module_kwargs.likelihood
           ELSE self.module_.args.likelihood = self.likelihood_

\* C4: ExactGPRegressor's initialize_module never returns normally with a
\* module_ that is not an ExactGP; when it ends with such a module_ it has
\* raised TypeError.
C4_NonExactGPRaisesTypeError ==
    (self.cls = "ExactGPRegressor" /\ ret.op = "initialize_module") =>
        /\ ret.exc = "none" => isinstance_ExactGP(self.module_)
        /\ (hasattr(self.module_) /\ ~isinstance_ExactGP(self.module_)) =>
              ret.exc = "TypeError"

C4_Witness ==
    /\ self.cls = "ExactGPRegressor"
    /\ ret.op = "initialize_module"
    /\ ret.exc = "TypeError"
    /\ self.module_.kind = "instance"
    /\ self.module_.cls = "VariationalGP"

\* C5 (as stated): an ExactGPRegressor has batch_size -1 by default and is
\* never initialized with any other batch_size.
C5_BatchSizeAlwaysMinusOne ==
    self.cls = "ExactGPRegressor" =>
        /\ ~init_args.has_batch_size => self.batch_size = -1
        /\ (ret.op = "initialize_module" /\ ret.exc = "none") =>
              self.batch_size = -1

\* C5 (amended): an ExactGPRegressor constructed without a batch_size has
\* batch_size -1; a batch_size given by the caller is kept as given, also
\* through initialize_module.
C5_BatchSizeDefaultsToMinusOne ==
    self.cls = "ExactGPRegressor" =>
        self.batch_size = IF init_args.has_batch_size THEN init_args.batch_size
                          ELSE -1

C5_Witness ==
    /\ self.cls = "ExactGPRegressor"
    /\ ~init_args.has_batch_size
    /\ ret.op = "initialize_module"
    /\ ret.exc = "none"
    /\ self.batch_size = -1

\* C6: forward returns one distribution per batch, in batch order and not
\* concatenated: as many elements as X has batches, the k-th over exactly the
\* samples of the k-th batch.
C6_ForwardOnePerBatch ==
    (ret.op = "forward" /\ ret.exc = "none") =>
        LET n == ret.arg.n
            bs == IF self.batch_size = -1 THEN n ELSE self.batch_size
            y == ret.value
        IN  /\ Len(y) * bs >= n
            /\ (Len(y) - 1) * bs < n
            /\ \A k \in 1..Len(y) :
                 /\ y[k].first.kind = "posterior"
                 /\ Len(y[k].first.X) = (IF k * bs < n THEN bs ELSE n - (k - 1) * bs)
                 /\ \A i \in 1..Len(y[k].first.X) :
                      y[k].first.X[i] = (k - 1) * bs + i

C6_Witness ==
    /\ ret.op = "forward"
    /\ ret.exc = "none"
    /\ ret.arg.n = 3
    /\ Len(ret.value) = 2
    /\ ret.value[2].first.X = <<3>>

\* C7: when initialize_criterion succeeds, likelihood_ and module_ are set and
\* the new criterion_ was built from exactly these two objects and the
\* criterion__ parameters.
C7_CriterionFromCurrentAttributes ==
    (ret.op = "initialize_criterion" /\ ret.exc = "none") =>
        /\ hasattr(self.likelihood_)
        /\ hasattr(self.module_)
        /\ isinstance_Module(self.criterion_)
        /\ self.criterion_.id = nextId - 1
        /\ self.criterion_.args.likelihood = self.likelihood_
        /\ self.criterion_.args.model = self.module_
        /\ self.criterion_.args.params = self.criterion_kwargs

C7_Witness ==
    /\ ret.op = "initialize_criterion"
    /\ ret.exc = "none"
    /\ self.likelihood.kind = "instance"
    /\ self.likelihood_.id > 1
    /\ self.criterion_.args.likelihood.id = self.likelihood_.id
    /\ DOMAIN self.criterion_kwargs # {}

====
